---- MODULE Spec2Model ----
(***************************************************************************)
(* Model of nim_workflows/nvdinov2_few_shot/nvdinov2_backup_1.py: the      *)
(* NVDINOv2 client.  One batch call (__call__) submits one _embed_once     *)
(* task per input item to a ThreadPoolExecutor, gathers the futures with   *)
(* as_completed and returns either the raw documents or the embeddings     *)
(* extracted from them.  A task uploads the image (_upload_asset) and then *)
(* posts the inference request with retry and backoff (_post_infer).       *)
(***************************************************************************)
EXTENDS Integers, Sequences, FiniteSets, TLC

(***************************************************************************)
(* Bounds of the model.                                                    *)
(***************************************************************************)
MaxItems == 2        \* longest input collection passed to a batch call
MaxWorkers == 2      \* largest worker count passed to a batch call
MaxRetriesCfg == 3   \* largest max_retries a client is configured with
MaxBackoffCfg == 2   \* largest retry_backoff (seconds) a client is configured with
MaxParsed == 2       \* longest sequence of collected documents handed to the embedding loop
MaxCalls == 2        \* most batch calls made on one client

(***************************************************************************)
(* Program constants (NVDINOv2.__init__).                                  *)
(***************************************************************************)
DefaultTimeout == 60
DefaultMaxRetries == 2
DefaultBackoff == 1
DefaultWorkers == 8

(***************************************************************************)
(* JSON-like values: Python None, strings, numbers, lists, tuples, dicts.  *)
(* A dict holds a function from its keys (strings) to values.              *)
(***************************************************************************)
JNull == [k |-> "null"]
JStr(s) == [k |-> "str", s |-> s]
JNum(n) == [k |-> "num", n |-> n]
JList(xs) == [k |-> "list", xs |-> xs]
JTuple(xs) == [k |-> "tuple", xs |-> xs]
JDict(m) == [k |-> "dict", m |-> m]
EmptyMap == [x \in {} |-> JNull]

IsDict(v) == v.k = "dict"
IsList(v) == v.k = "list"
HasKey(v, key) == key \in DOMAIN v.m

(***************************************************************************)
(* _extract_embedding: the value returned for resp_json; JNull is None.    *)
(***************************************************************************)
FirstEmbedding(v, key) ==
    \* resp_json[key] is a non-empty list whose first element is a dict
    \* with key "embedding"
    /\ HasKey(v, key)
    /\ IsList(v.m[key])
    /\ Len(v.m[key].xs) > 0
    /\ IsDict(v.m[key].xs[1])
    /\ HasKey(v.m[key].xs[1], "embedding")

WrapKeys == <<"data", "outputs", "results">>

RECURSIVE ExtractWrapped(_, _)
ExtractWrapped(v, n) ==
    IF n > Len(WrapKeys) THEN JNull
    ELSE IF FirstEmbedding(v, WrapKeys[n]) THEN v.m[WrapKeys[n]].xs[1].m["embedding"]
    ELSE ExtractWrapped(v, n + 1)

\* faulty variant: the flat format is tried before the expected one
ExtractFlatFirst(v) ==
    IF ~IsDict(v) THEN JNull
    ELSE IF HasKey(v, "embedding") /\ v.m["embedding"].k \in {"list", "tuple"}
    THEN JList(v.m["embedding"].xs)
    ELSE IF FirstEmbedding(v, "metadata") THEN v.m["metadata"].xs[1].m["embedding"]
    ELSE ExtractWrapped(v, 1)

ExtractEmbedding(v) ==
    IF ~IsDict(v) THEN JNull
    ELSE IF FirstEmbedding(v, "metadata") THEN v.m["metadata"].xs[1].m["embedding"]
    ELSE IF HasKey(v, "embedding") /\ v.m["embedding"].k \in {"list", "tuple"}
    THEN JList(v.m["embedding"].xs)
    ELSE ExtractWrapped(v, 1)

(***************************************************************************)
(* Exceptions and the error marker of the collection loop.                 *)
(***************************************************************************)
NoErr == [type |-> "None", msg |-> <<>>]
Exc(type, at, n) == [type |-> type, msg |-> <<at, n>>]
\* str(e): the message only, the exception's type is dropped
StrOf(e) == JStr(e.msg)
ErrorMarker(e) == JDict([error |-> StrOf(e)])

(***************************************************************************)
(* Documents the inference endpoint answers with (r.json()): for item i a  *)
(* document of the expected shape carrying the item's embedding, or a      *)
(* document without an embedding.                                          *)
(***************************************************************************)
EmbeddingOf(i) == JList(<<JNum(i)>>)
GoodDoc(i) == JDict([metadata |-> JList(<<JDict([embedding |-> EmbeddingOf(i)])>>)])
NoEmbDoc == JDict([metadata |-> JList(<<>>)])
ServerDocs(i) == {GoodDoc(i), NoEmbDoc}

(***************************************************************************)
(* Documents _extract_embedding may be handed: any value r.json() can      *)
(* decode, or an error marker.  A dict has each of the keys the parser     *)
(* looks at absent or bound to one of a few values, well-shaped or not.    *)
(***************************************************************************)
Absent == [k |-> "absent"]
Wrapped(n) == JList(<<JDict([embedding |-> EmbeddingOf(n)])>>)
MetadataOpts ==
    {Absent, Wrapped(1), JList(<<>>), JDict(EmptyMap), JList(<<JNum(0)>>),
     JList(<<JDict(EmptyMap)>>), JList(<<JDict([embedding |-> JNull])>>),
     JList(<<JNum(0), JDict([embedding |-> EmbeddingOf(1)])>>)}
EmbeddingOpts == {Absent, EmbeddingOf(2), JList(<<>>), JStr("x"), JNull}
DataOpts == {Absent, Wrapped(3), JList(<<>>)}
OutputsOpts == {Absent, Wrapped(4), JDict([embedding |-> EmbeddingOf(4)])}
ResultsOpts == {Absent, Wrapped(5)}
ErrorOpts == {Absent, JStr("x")}

MkDict(md, em, da, ou, re, er) ==
    LET opt == [metadata |-> md, embedding |-> em, data |-> da, outputs |-> ou,
                results |-> re, error |-> er]
    IN  JDict([key \in {x \in DOMAIN opt : opt[x].k # "absent"} |-> opt[key]])

DictDocs ==
    {MkDict(md, em, da, ou, re, er) :
        md \in MetadataOpts, em \in EmbeddingOpts, da \in DataOpts, ou \in OutputsOpts,
        re \in ResultsOpts, er \in ErrorOpts}
NonDictDocs == {JNull, JNum(1), JStr("x"), JList(<<>>), JList(<<GoodDoc(1)>>)}
ParseDocs == DictDocs \cup NonDictDocs
\* the documents the longer sequences are made of
FewDocs ==
    {GoodDoc(1), GoodDoc(2), NoEmbDoc, ErrorMarker(Exc("RequestException", "slot", 0)),
     JDict([data |-> Wrapped(3)])}

(***************************************************************************)
(* The call's argument: one image, or a collection of images.  An image is *)
(* a path (str), an in-memory image (pil) or a value of another type       *)
(* (other).  A path may turn out unreadable when it is opened.  The        *)
(* in-memory image is passed alone; the collections mix paths, readable or *)
(* not, with values of unsupported type.                                   *)
(***************************************************************************)
ImageKinds == {"str", "pil", "other"}
ListKinds == {"str", "other"}
SingleArgs == {[shape |-> "single", item |-> kd] : kd \in {"str", "pil"}}
ListArgs == UNION {{[shape |-> "list", items |-> xs] : xs \in [1..n -> ListKinds]} : n \in 0..MaxItems}
AllArgs == SingleArgs \cup ListArgs
\* a single value that is neither a str nor an Image and cannot be iterated
NonIterableArg == [shape |-> "single", item |-> "other"]
NoArg == [shape |-> "none"]

\* faulty variant: the single value is iterated like a collection (a path of
\* two characters becomes two items)
NormalizeInputSplits(x) == IF x.shape = "single" THEN <<x.item, x.item>> ELSE x.items

\* __call__, lines 149-152: a single str / Image becomes a one-element list
NormalizeInput(x) == IF x.shape = "single" THEN <<x.item>> ELSE x.items

VARIABLES
    client,       \* the NVDINOv2 instance: its attributes
    pc,           \* the calling thread: idle, submit, collect, returned
    inputs,       \* __call__: inputs
    workers,      \* __call__: workers
    return_meta,  \* __call__: return_meta
    nsub,         \* __call__: len(futures)
    snapshot,     \* as_completed: futures found finished when it started, not yet yielded
    waiterQ,      \* as_completed: waiter.finished_futures, in finishing order
    collected,    \* the futures as_completed has yielded, in order
    responses,    \* __call__: responses
    result,       \* the value __call__ returned
    warned,       \* the count the [WARN] line printed (0: no warning)
    tpc,          \* per task: new, queued, slot, put, infer, sleep, done
    attempt,      \* per task: _post_infer's attempt
    last_err,     \* per task: _post_infer's last_err
    asset_id,     \* per task: the assetId its slot request returned
    outcome,      \* per task: what its future holds (result or exception)
    trace,        \* per task: the steps it has executed, in order
    finishOrder,  \* the tasks in the order their futures finished
    image_paths_or_pils,  \* __call__: the argument as it was passed
    calls,        \* the number of batch calls made on the client
    sent          \* per task: the asset references of the requests it has sent

vars == <<client, pc, inputs, workers, return_meta, nsub, snapshot, waiterQ, collected,
          responses, result, warned, tpc, attempt, last_err, asset_id, outcome, trace,
          finishOrder, image_paths_or_pils, calls, sent>>

callVars == <<inputs, workers, return_meta, image_paths_or_pils, calls>>
mainVars == <<pc, nsub, snapshot, collected, responses, result, warned>>

Tasks == 1..Len(inputs)
NoOutcome == [st |-> "none"]
Returned(d) == [st |-> "ok", doc |-> d]
Raised(e) == [st |-> "err", err |-> e]
\* the assetId the asset service issues for task i's slot request (one per
\* request, none issued twice); 0 is no identifier yet.  Whether its text is
\* a well-formed UUID shows when uuid.UUID parses it
NoAsset == 0
IssuedAsset(i) == i
Ev(op, arg, ok) == [op |-> op, arg |-> arg, ok |-> ok]

ActivePcs == {"slot", "put", "infer", "sleep"}
Running == {i \in Tasks : tpc[i] \in ActivePcs}

(***************************************************************************)
(* Initial state: a client as __init__ leaves it, no call made yet.        *)
(***************************************************************************)
NewClient(retries, backoff) ==
    [base_url |-> "nv-dinov2", api_key |-> "key", header_auth |-> <<"Bearer", "key">>,
     request_timeout |-> DefaultTimeout, max_retries |-> retries, retry_backoff |-> backoff]

NoCall ==
    /\ pc = "idle"
    /\ inputs = <<>>
    /\ workers = 1
    /\ return_meta = FALSE
    /\ nsub = 0
    /\ snapshot = {}
    /\ waiterQ = <<>>
    /\ collected = <<>>
    /\ responses = <<>>
    /\ result = <<>>
    /\ warned = 0
    /\ tpc = <<>>
    /\ attempt = <<>>
    /\ last_err = <<>>
    /\ asset_id = <<>>
    /\ outcome = <<>>
    /\ trace = <<>>
    /\ finishOrder = <<>>
    /\ image_paths_or_pils = NoArg
    /\ calls = 0
    /\ sent = <<>>

Init ==
    /\ client = NewClient(DefaultMaxRetries, DefaultBackoff)
    /\ NoCall

\* max_retries and retry_backoff are plain attributes: a caller may have set them
InitConfigured ==
    /\ \E r \in 0..MaxRetriesCfg, b \in 0..MaxBackoffCfg : client = NewClient(r, b)
    /\ NoCall

(***************************************************************************)
(* The calling thread: __call__.                                           *)
(***************************************************************************)
\* lines 149-155: normalise the argument, start with no futures and no responses
\* faulty variant: the list outlives the call (kept on the client, or a
\* mutable default) and is appended to by the next one
FreshResponsesKept == responses

\* line 154: responses = []
FreshResponses == <<>>

Begin(args, ws) ==
    /\ \E x \in args, w \in ws, rm \in BOOLEAN :
          /\ image_paths_or_pils' = x
          /\ inputs' = NormalizeInput(x)
          /\ workers' = w
          /\ return_meta' = rm
    /\ calls' = calls + 1
    /\ pc' = "submit"
    /\ nsub' = 0
    /\ snapshot' = {}
    /\ waiterQ' = <<>>
    /\ collected' = <<>>
    /\ responses' = FreshResponses
    /\ result' = <<>>
    /\ warned' = 0
    /\ tpc' = [i \in 1..Len(inputs') |-> "new"]
    /\ attempt' = [i \in 1..Len(inputs') |-> 0]
    /\ last_err' = [i \in 1..Len(inputs') |-> NoErr]
    /\ asset_id' = [i \in 1..Len(inputs') |-> NoAsset]
    /\ outcome' = [i \in 1..Len(inputs') |-> NoOutcome]
    /\ trace' = [i \in 1..Len(inputs') |-> <<>>]
    /\ sent' = [i \in 1..Len(inputs') |-> <<>>]
    /\ finishOrder' = <<>>
    /\ UNCHANGED client

CallWith(args, ws) == pc = "idle" /\ Begin(args, ws)

\* the worker count defaults to 8 (line 142)
Call == CallWith(AllArgs, 1..MaxWorkers)
CallSingle == CallWith(SingleArgs, (1..MaxWorkers) \cup {DefaultWorkers})

\* a later call on the same client, the earlier one having returned
AgainArgs == SingleArgs \cup {[shape |-> "list", items |-> <<>>]}
CallFirst == CallWith(AgainArgs, 1..MaxWorkers)
CallAgain ==
    /\ pc = "returned"
    /\ calls < MaxCalls
    /\ Begin(AgainArgs, 1..MaxWorkers)

\* line 152: list(image_paths_or_pils) of a value that is neither a str nor
\* an Image and cannot be iterated raises TypeError to the caller
CallNonIterable ==
    /\ pc = "idle"
    /\ image_paths_or_pils' = NonIterableArg
    /\ calls' = calls + 1
    /\ pc' = "raised"
    /\ UNCHANGED <<client, inputs, workers, return_meta, nsub, snapshot, waiterQ, collected,
                   responses, result, warned, tpc, attempt, last_err, asset_id, outcome,
                   trace, finishOrder, sent>>

\* lines 159-160: ex.submit(self._embed_once, x) for the next input
Submit ==
    /\ pc = "submit"
    /\ nsub < Len(inputs)
    /\ nsub' = nsub + 1
    /\ tpc' = [tpc EXCEPT ![nsub + 1] = "queued"]
    /\ UNCHANGED <<client, callVars, pc, snapshot, waiterQ, collected, responses, result,
                   warned, attempt, last_err, asset_id, outcome, trace, finishOrder, sent>>

\* line 163, as_completed(futures) starting.  It is a generator, so it starts
\* with the first pass of the loop, after the last submit.  concurrent.futures
\* then sets aside the futures already finished, as a set,
\*     finished = set(f for f in fs if f._state in [CANCELLED_AND_NOTIFIED, FINISHED])
\* to be yielded first, and installs a waiter that is told of every future
\* finishing from then on
BeginCollect ==
    /\ pc = "submit"
    /\ nsub = Len(inputs)
    /\ pc' = "collect"
    /\ snapshot' = {i \in Tasks : tpc[i] = "done"}
    /\ waiterQ' = <<>>
    /\ UNCHANGED <<client, callVars, nsub, collected, responses, result, warned, tpc,
                   attempt, last_err, asset_id, outcome, trace, finishOrder, sent>>

\* faulty variant: the futures that finish during the collection come newest first
NextYieldNewestFirst ==
    IF snapshot # {} THEN snapshot
    ELSE IF waiterQ # <<>> THEN {waiterQ[Len(waiterQ)]}
    ELSE {}

\* as_completed: the futures it may yield next.  Those finished before it
\* started come first, out of a set (no order among them); the others come
\* as they finish, oldest first
NextYield ==
    IF snapshot # {} THEN snapshot
    ELSE IF waiterQ # <<>> THEN {Head(waiterQ)}
    ELSE {}

\* lines 164-168: fut.result(), or the error marker of what it raised
\* faulty variant: a failed future is recorded as None, its message lost
CollectedNone(o) == IF o.st = "ok" THEN o.doc ELSE JNull

Collected(o) == IF o.st = "ok" THEN o.doc ELSE ErrorMarker(o.err)

\* faulty variant: a failed future is skipped instead of recorded
AppendedSkipsFailed(rs, o) == IF o.st = "ok" THEN Append(rs, o.doc) ELSE rs

\* faulty variant: the entry is appended in the try and again after it
AppendedTwice(rs, o) == Append(Append(rs, Collected(o)), Collected(o))

\* faulty variant: the newest entry is put in front
AppendedInFront(rs, o) == <<Collected(o)>> \o rs

Appended(rs, o) == Append(rs, Collected(o))

Collect ==
    /\ pc = "collect"
    /\ \E i \in NextYield :
          /\ collected' = Append(collected, i)
          /\ responses' = Appended(responses, outcome[i])
          /\ snapshot' = snapshot \ {i}
          /\ waiterQ' = SelectSeq(waiterQ, LAMBDA j : j # i)
    /\ UNCHANGED <<client, callVars, pc, nsub, result, warned, tpc, attempt, last_err,
                   asset_id, outcome, trace, finishOrder, sent>>

\* lines 177-187: the loop over responses
RECURSIVE EmbedLoop(_, _, _)
EmbedLoop(rs, p, acc) ==
    IF p > Len(rs) THEN acc
    ELSE LET emb == ExtractEmbedding(rs[p])
         IN  IF emb = JNull
             THEN EmbedLoop(rs, p + 1, [embeddings |-> Append(acc.embeddings, JNull),
                                        failed |-> acc.failed + 1])
             ELSE EmbedLoop(rs, p + 1, [embeddings |-> Append(acc.embeddings, emb),
                                        failed |-> acc.failed])

\* faulty variant: a failed extraction is counted and skipped
EmbeddingsDropFailed(rs) ==
    LET all == EmbedLoop(rs, 1, [embeddings |-> <<>>, failed |-> 0])
    IN  [embeddings |-> SelectSeq(all.embeddings, LAMBDA e : e # JNull), failed |-> all.failed]

Embeddings(rs) == EmbedLoop(rs, 1, [embeddings |-> <<>>, failed |-> 0])

\* faulty variant: the loop stops at the first future gathered
AllYieldedFirstOnly == Len(collected) >= 1 \/ nsub = 0

\* as_completed is exhausted once every future has been yielded
AllYielded == Len(collected) = nsub

\* lines 163-191: the collection loop ends, the pool shuts down (waiting for
\* its workers), and the responses or the embeddings are returned
Return ==
    /\ pc = "collect"
    /\ AllYielded
    /\ pc' = "returned"
    /\ result' = IF return_meta THEN responses ELSE Embeddings(responses).embeddings
    /\ warned' = IF return_meta THEN 0 ELSE Embeddings(responses).failed
    /\ UNCHANGED <<client, callVars, nsub, snapshot, waiterQ, collected, responses, tpc,
                   attempt, last_err, asset_id, outcome, trace, finishOrder, sent>>

(***************************************************************************)
(* The worker threads: one _embed_once task per submitted input.           *)
(***************************************************************************)
\* the task's future finishes (set_result / set_exception); a waiter
\* as_completed has installed is told
Finish(i, o, evs) ==
    /\ tpc' = [tpc EXCEPT ![i] = "done"]
    /\ outcome' = [outcome EXCEPT ![i] = o]
    /\ trace' = [trace EXCEPT ![i] = @ \o evs]
    /\ finishOrder' = Append(finishOrder, i)
    /\ waiterQ' = IF pc = "collect" THEN Append(waiterQ, i) ELSE waiterQ

Goto(i, p, evs) ==
    /\ tpc' = [tpc EXCEPT ![i] = p]
    /\ trace' = [trace EXCEPT ![i] = @ \o evs]
    /\ UNCHANGED <<outcome, finishOrder, waiterQ>>

\* faulty variant: the task posts the inference request without uploading first
FirstPcInfer == "infer"

\* _embed_once, line 136: a task begins with _upload_asset
FirstPc == "slot"

\* faulty variant: a thread per task, whatever the worker count
WorkerFreeAlways == TRUE

\* faulty variant: the executor keeps one worker back
WorkerFreeOneLess == Cardinality(Running) < workers - 1

\* ThreadPoolExecutor(max_workers=workers): at most that many worker threads
WorkerFree == Cardinality(Running) < workers

\* ThreadPoolExecutor: a free worker takes the oldest queued work item
Start(i) ==
    /\ tpc[i] = "queued"
    /\ \A j \in Tasks : j < i => tpc[j] # "queued"
    /\ WorkerFree
    /\ Goto(i, FirstPc, <<>>)
    /\ UNCHANGED <<client, callVars, mainVars, attempt, last_err, asset_id, sent>>

\* faulty variant: a failed upload is started over
UploadFailedRetries(i, e, evs) == Goto(i, "slot", evs)

\* an exception leaving _upload_asset leaves _embed_once: the task has failed
UploadFailed(i, e, evs) == Finish(i, Raised(e), evs)

\* faulty variant: the image is looked at before a slot is requested
NormBeforeSlot(ok) ==
    IF ok THEN <<Ev("norm", 0, TRUE), Ev("slot", 0, TRUE)>> ELSE <<Ev("norm", 0, FALSE)>>

\* lines 81-93: the slot has been requested when the image is looked at
SlotThenNorm(ok) == <<Ev("slot", 0, TRUE), Ev("norm", 0, ok)>>

\* faulty variant: the else branch is missing, any value goes on as an image
UnsupportedAccepted(i) == Goto(i, "put", SlotThenNorm(TRUE))

\* lines 92-93: neither a str nor an Image: raise TypeError, inside the task
Unsupported(i) == UploadFailed(i, Exc("TypeError", "norm", 0), SlotThenNorm(FALSE))

\* _upload_asset, lines 81-96: the slot request, then the image as RGB JPEG
UploadSlot(i) ==
    /\ tpc[i] = "slot"
    /\ \/ /\ UploadFailed(i, Exc("RequestException", "slot", 0), <<Ev("slot", 0, FALSE)>>)
          /\ UNCHANGED asset_id
       \/ /\ asset_id' = [asset_id EXCEPT ![i] = IssuedAsset(i)]
          /\ \/ /\ inputs[i] \in {"str", "pil"}
                /\ Goto(i, "put", SlotThenNorm(TRUE))
             \/ /\ inputs[i] = "str"
                /\ UploadFailed(i, Exc("OSError", "norm", 0), SlotThenNorm(FALSE))
             \/ /\ inputs[i] = "other"
                /\ Unsupported(i)
    /\ UNCHANGED <<client, callVars, mainVars, attempt, last_err, sent>>

\* line 98: the PUT goes to the uploadUrl the task's own slot request returned
UploadTarget(i) == asset_id[i]
PutRequest(a) == [op |-> "put", uploadUrl |-> a]

\* _upload_asset, lines 98-100: the byte transfer, then uuid.UUID(asset_id);
\* _embed_once then enters _post_infer with attempt 0
UploadPut(i) ==
    /\ tpc[i] = "put"
    /\ sent' = [sent EXCEPT ![i] = Append(@, PutRequest(UploadTarget(i)))]
    /\ \/ UploadFailed(i, Exc("RequestException", "put", 0), <<Ev("put", 0, FALSE)>>)
       \/ UploadFailed(i, Exc("ValueError", "parse", 0),
                       <<Ev("put", 0, TRUE), Ev("parse", 0, FALSE)>>)
       \/ Goto(i, "infer", <<Ev("put", 0, TRUE), Ev("parse", 0, TRUE)>>)
    /\ UNCHANGED <<client, callVars, mainVars, attempt, last_err, asset_id>>

\* faulty variant: one retry too many
RetryAllowedOffByOne(a, max_retries) == a <= max_retries

\* _post_infer, line 125
RetryAllowed(a, max_retries) == a < max_retries

\* faulty variant: the delay grows linearly instead of doubling
SleepDelayLinear(backoff, a) == backoff * (a + 1)

\* _post_infer, line 126
SleepDelay(backoff, a) == backoff * (2 ^ a)

\* faulty variant: the loop ends without raising and the function returns None
ExhaustedFallsThrough(i, e, evs) == Finish(i, Returned(JNull), evs)

\* _post_infer, line 129: raise last_err
Exhausted(i, e, evs) == Finish(i, Raised(e), evs)

\* faulty variant: the identifier is kept in one place shared by the tasks,
\* which holds the highest one issued so far
HeaderAssetShared(i) ==
    CHOOSE a \in {asset_id[j] : j \in Tasks} : \A j \in Tasks : asset_id[j] <= a

\* _post_infer, lines 107-112: both headers carry the asset_id it was called with
HeaderAsset(i) == asset_id[i]
InferRequest(a) == [op |-> "infer", input_refs |-> a, function_ids |-> a]

\* _post_infer, lines 118-129: one pass of the retry loop up to its sleep
InferAttempt(i) ==
    /\ tpc[i] = "infer"
    /\ sent' = [sent EXCEPT ![i] = Append(@, InferRequest(HeaderAsset(i)))]
    /\ LET a == attempt[i]
           e == Exc("RequestException", "infer", a)
       IN  \/ /\ \E d \in ServerDocs(i) : Finish(i, Returned(d), <<Ev("infer", a, TRUE)>>)
              /\ UNCHANGED last_err
           \/ /\ last_err' = [last_err EXCEPT ![i] = e]
              /\ IF RetryAllowed(a, client.max_retries)
                 THEN Goto(i, "sleep", <<Ev("infer", a, FALSE),
                                         Ev("sleep", SleepDelay(client.retry_backoff, a), TRUE)>>)
                 ELSE Exhausted(i, last_err'[i], <<Ev("infer", a, FALSE)>>)
    /\ UNCHANGED <<client, callVars, mainVars, attempt, asset_id>>

\* _post_infer, lines 126 and 117: the sleep ends, the loop takes the next attempt
Wake(i) ==
    /\ tpc[i] = "sleep"
    /\ attempt' = [attempt EXCEPT ![i] = @ + 1]
    /\ Goto(i, "infer", <<>>)
    /\ UNCHANGED <<client, callVars, mainVars, last_err, asset_id, sent>>

Next ==
    \/ Call
    \/ CallNonIterable
    \/ Submit
    \/ BeginCollect
    \/ Collect
    \/ Return
    \/ \E i \in Tasks : Start(i)
    \/ \E i \in Tasks : UploadSlot(i)
    \/ \E i \in Tasks : UploadPut(i)
    \/ \E i \in Tasks : InferAttempt(i)
    \/ \E i \in Tasks : Wake(i)

Spec == Init /\ [][Next]_vars

\* a client with any retry configuration, called with one image
NextSingle ==
    \/ CallSingle
    \/ Submit
    \/ BeginCollect
    \/ Collect
    \/ Return
    \/ \E i \in Tasks : Start(i)
    \/ \E i \in Tasks : UploadSlot(i)
    \/ \E i \in Tasks : UploadPut(i)
    \/ \E i \in Tasks : InferAttempt(i)
    \/ \E i \in Tasks : Wake(i)

SpecRetry == InitConfigured /\ [][NextSingle]_vars

(***************************************************************************)
(* Several calls, one after the other, on a client of any configuration.   *)
(***************************************************************************)
NextAgain ==
    \/ CallFirst
    \/ CallAgain
    \/ Submit
    \/ BeginCollect
    \/ Collect
    \/ Return
    \/ \E i \in Tasks : Start(i)
    \/ \E i \in Tasks : UploadSlot(i)
    \/ \E i \in Tasks : UploadPut(i)
    \/ \E i \in Tasks : InferAttempt(i)
    \/ \E i \in Tasks : Wake(i)

SpecAgain == InitConfigured /\ [][NextAgain]_vars

(***************************************************************************)
(* Scheduling.  The calling thread runs on once __call__ has been entered; *)
(* every worker task that can take a step takes one: a free worker picks   *)
(* up queued work, requests.post / requests.put return or raise within     *)
(* their timeout, and time.sleep ends.  Whether __call__ is ever entered   *)
(* is up to the caller.                                                    *)
(***************************************************************************)
MainStep == Submit \/ BeginCollect \/ Collect \/ Return
TaskStep(i) ==
    i \in Tasks /\ (Start(i) \/ UploadSlot(i) \/ UploadPut(i) \/ InferAttempt(i) \/ Wake(i))
Fairness == WF_vars(MainStep) /\ \A i \in 1..MaxItems : WF_vars(TaskStep(i))

SpecLive == Spec /\ Fairness

(***************************************************************************)
(* The embedding loop and _extract_embedding on their own: a call whose    *)
(* collection loop has just ended, every task having been answered, with   *)
(* the documents drawn from ParseDocs (one document) or FewDocs (several). *)
(***************************************************************************)
ParsedSeqs ==
    {<<d>> : d \in ParseDocs} \cup UNION {[1..n -> FewDocs] : n \in 0..MaxParsed}

AllAnswered(docs) ==
    LET n == Len(docs)
    IN  /\ pc = "collect"
        /\ image_paths_or_pils = [shape |-> "list", items |-> [i \in 1..n |-> "str"]]
        /\ inputs = [i \in 1..n |-> "str"]
        /\ workers = 1
        /\ calls = 1
        /\ nsub = n
        /\ snapshot = {}
        /\ waiterQ = <<>>
        /\ collected = [i \in 1..n |-> i]
        /\ finishOrder = [i \in 1..n |-> i]
        /\ responses = docs
        /\ result = <<>>
        /\ warned = 0
        /\ tpc = [i \in 1..n |-> "done"]
        /\ attempt = [i \in 1..n |-> 0]
        /\ last_err = [i \in 1..n |-> NoErr]
        /\ asset_id = [i \in 1..n |-> IssuedAsset(i)]
        /\ outcome = [i \in 1..n |-> Returned(docs[i])]
        /\ trace = [i \in 1..n |->
                       <<Ev("slot", 0, TRUE), Ev("norm", 0, TRUE), Ev("put", 0, TRUE),
                         Ev("parse", 0, TRUE), Ev("infer", 0, TRUE)>>]
        /\ sent = [i \in 1..n |-> <<PutRequest(IssuedAsset(i)), InferRequest(IssuedAsset(i))>>]

InitParse ==
    /\ client = NewClient(DefaultMaxRetries, DefaultBackoff)
    /\ return_meta \in BOOLEAN
    /\ \E docs \in ParsedSeqs : AllAnswered(docs)

SpecParse == InitParse /\ [][Return]_vars

(***************************************************************************)
(* Helpers of the properties.                                              *)
(***************************************************************************)
Range(q) == {q[p] : p \in 1..Len(q)}
PosIn(q, x) == CHOOSE p \in 1..Len(q) : q[p] = x
Failed(i) == outcome[i].st = "err"
Succeeded(i) == outcome[i].st = "ok"
\* what the result shows of an outcome: the document or the error marker in
\* raw mode, the embedding or None in embedding mode
Shown(o) ==
    IF o.st = "err"
    THEN (IF return_meta THEN JDict([error |-> JStr(o.err.msg)]) ELSE JNull)
    ELSE (IF return_meta THEN o.doc ELSE ExtractEmbedding(o.doc))

(***************************************************************************)
(* C1.  A batch call with N input items returns a sequence of exactly N    *)
(* entries, in raw mode and in embedding mode, for every worker count and  *)
(* whichever items fail.                                                   *)
(***************************************************************************)
C1_LengthIsN ==
    pc = "returned" => Len(result) = Len(inputs) /\ Len(responses) = Len(inputs)

C1_Witness ==
    /\ pc = "returned"
    /\ Len(inputs) = MaxItems
    /\ ~return_meta
    /\ workers = MaxWorkers
    /\ \E i, j \in Tasks : Failed(i) /\ Succeeded(j)
    /\ Len(result) = MaxItems

(***************************************************************************)
(* C2.  A failure of one item's upload or inference does not abort the     *)
(* batch: the call returns, every item has run to its own outcome, and the *)
(* failed item shows as {"error": <message>} in raw mode and as None in    *)
(* embedding mode, every other item as its own document or embedding.      *)
(***************************************************************************)
C2_FailuresIsolated ==
    /\ pc = "returned" =>
          \A i \in Tasks :
              /\ tpc[i] = "done"
              /\ outcome[i] # NoOutcome
              /\ \E p \in 1..Len(result) : collected[p] = i /\ result[p] = Shown(outcome[i])
    \* a failed task never blocks the collection loop or the return
    /\ (pc = "collect" /\ \A i \in Tasks : tpc[i] = "done") => ENABLED (Collect \/ Return)

C2_Witness ==
    /\ pc = "returned"
    /\ return_meta
    /\ Len(inputs) = 2
    /\ Failed(1) /\ outcome[1].err.msg[1] = "infer"
    /\ Succeeded(2)
    /\ \E p, q \in 1..2 : result[p] = ErrorMarker(outcome[1].err) /\ result[q] = GoodDoc(2)

InferEvents(i) == SelectSeq(trace[i], LAMBDA e : e.op = "infer")
SleepEvents(i) == SelectSeq(trace[i], LAMBDA e : e.op = "sleep")
FailedAt(i, step) == tpc[i] = "done" /\ Failed(i) /\ outcome[i].err.msg[1] = step

(***************************************************************************)
(* C3.  With max_retries = N an inference invocation whose attempts all    *)
(* fail makes exactly N+1 attempts before it raises; one whose k-th        *)
(* attempt succeeds makes exactly k attempts; the delays between attempts  *)
(* never decrease.                                                         *)
(***************************************************************************)
C3_AttemptCount ==
    \A i \in Tasks :
        LET inf == InferEvents(i)
            sl == SleepEvents(i)
            n == client.max_retries
        IN  /\ \A p \in 1..Len(inf) : inf[p].arg = p - 1
            /\ Len(inf) <= n + 1
            \* the failure is surfaced after N+1 failed attempts, not before
            /\ FailedAt(i, "infer") => Len(inf) = n + 1 /\ \A p \in 1..Len(inf) : ~inf[p].ok
            /\ (Len(inf) > 0 /\ Len(inf) < n + 1 /\ \A p \in 1..Len(inf) : ~inf[p].ok)
                  => tpc[i] \in {"infer", "sleep"}
            \* a successful attempt is the last one
            /\ \A p \in 1..Len(inf) :
                  inf[p].ok => p = Len(inf) /\ tpc[i] = "done" /\ Succeeded(i)
            /\ \A p \in 1..(Len(sl) - 1) : sl[p].arg <= sl[p + 1].arg

C3_Witness ==
    /\ client.max_retries = DefaultMaxRetries
    /\ client.retry_backoff = DefaultBackoff
    /\ Len(inputs) = 1
    /\ FailedAt(1, "infer")
    /\ Len(InferEvents(1)) = 3
    /\ Len(SleepEvents(1)) = 2
    /\ SleepEvents(1)[1].arg < SleepEvents(1)[2].arg

(***************************************************************************)
(* C4.  After the failure of attempt a (counted from 0) with               *)
(* a < max_retries the worker sleeps retry_backoff * 2^a and then makes    *)
(* attempt a+1; nothing is slept after a successful attempt or after the   *)
(* failure of attempt max_retries.                                         *)
(***************************************************************************)
RECURSIVE Doubled(_, _)
Doubled(b, a) == IF a = 0 THEN b ELSE 2 * Doubled(b, a - 1)

C4_BackoffSleep ==
    \A i \in Tasks :
        \A p \in 1..Len(trace[i]) :
            LET e == trace[i][p]
                n == client.max_retries
                more == p < Len(trace[i])
            IN  /\ (e.op = "infer" /\ ~e.ok /\ e.arg < n) =>
                      /\ more
                      /\ trace[i][p + 1] = Ev("sleep", Doubled(client.retry_backoff, e.arg), TRUE)
                      /\ p + 1 < Len(trace[i]) => trace[i][p + 2].op = "infer"
                                                  /\ trace[i][p + 2].arg = e.arg + 1
                /\ (e.op = "infer" /\ (e.ok \/ e.arg >= n)) => ~more
                /\ e.op = "sleep" =>
                      /\ p > 1
                      /\ trace[i][p - 1].op = "infer"
                      /\ ~trace[i][p - 1].ok
                      /\ trace[i][p - 1].arg < n

C4_Witness ==
    /\ Len(inputs) = 1
    /\ client.retry_backoff = 2
    /\ client.max_retries = 3
    /\ Succeeded(1)
    /\ Len(SleepEvents(1)) = 3
    /\ SleepEvents(1)[3].arg = 8

UploadOps == {"slot", "put"}

C6_UploadNotRetried ==
    \A i \in Tasks :
        /\ \A op \in UploadOps : Len(SelectSeq(trace[i], LAMBDA e : e.op = op)) <= 1
        /\ \A p \in 1..Len(trace[i]) :
              (trace[i][p].op \in UploadOps /\ ~trace[i][p].ok) =>
                  /\ p = Len(trace[i])
                  /\ FailedAt(i, trace[i][p].op)
                  /\ InferEvents(i) = <<>>

C6_Witness ==
    /\ Len(inputs) = 2
    /\ FailedAt(1, "put")
    /\ FailedAt(2, "slot")
    /\ trace[2] = <<Ev("slot", 0, FALSE)>>
    /\ pc = "returned"

(***************************************************************************)
(* C7.  Within one item the upload precedes the inference: an inference    *)
(* attempt is made only after the item's slot request, byte transfer and   *)
(* identifier parsing have all succeeded.                                  *)
(***************************************************************************)
UploadDone == <<Ev("slot", 0, TRUE), Ev("norm", 0, TRUE), Ev("put", 0, TRUE), Ev("parse", 0, TRUE)>>

UploadedFirst(i) == Len(trace[i]) >= 4 /\ SubSeq(trace[i], 1, 4) = UploadDone

C7_UploadBeforeInference ==
    \A i \in Tasks :
        /\ tpc[i] \in {"infer", "sleep"} => UploadedFirst(i)
        /\ \A p \in 1..Len(trace[i]) :
              trace[i][p].op = "infer" =>
                  /\ p > 4
                  /\ UploadedFirst(i)
                  /\ asset_id[i] = IssuedAsset(i)

C7_Witness ==
    /\ Len(inputs) = 2
    /\ tpc[1] = "infer"
    /\ trace[1] = UploadDone
    /\ tpc[2] = "put"

(***************************************************************************)
(* C8.  The batch call returns only when every submitted task has ended,   *)
(* in success or in final failure, and its outcome has been gathered: at   *)
(* the return no task is queued, running or sleeping, and none is left     *)
(* out.                                                                    *)
(***************************************************************************)
C8_NoPartialReturn ==
    pc = "returned" =>
        /\ nsub = Len(inputs)
        /\ \A i \in Tasks : tpc[i] = "done" /\ outcome[i].st \in {"ok", "err"}
        /\ Range(collected) = Tasks
        /\ Len(collected) = Len(inputs)
        /\ Range(finishOrder) = Tasks
        /\ snapshot = {} /\ waiterQ = <<>>

C8_Witness ==
    /\ pc = "returned"
    /\ Len(inputs) = 2
    /\ workers = 1
    /\ Succeeded(1) /\ Len(InferEvents(1)) = 3
    /\ FailedAt(2, "infer")

(***************************************************************************)
(* C9.  As claimed: the error marker (raw mode) or None (embedding mode)   *)
(* of a failed item sits at the index the item has in the input.           *)
(***************************************************************************)
C9_FailedAtInputIndex ==
    pc = "returned" => \A i \in Tasks : Failed(i) => result[i] = Shown(outcome[i])

(***************************************************************************)
(* C9, amended.  The error marker or None of a failed item sits at the     *)
(* position at which the item's future was gathered: entry p of the result *)
(* belongs to the p-th future as_completed yielded, each item has exactly  *)
(* one entry, and the entries are at the items' input indexes when the     *)
(* futures were gathered in input order.                                   *)
(***************************************************************************)
C9_FailedAtGatheredPosition ==
    pc = "returned" =>
        /\ Len(result) = Len(collected)
        /\ \A p, q \in 1..Len(collected) : collected[p] = collected[q] => p = q
        /\ \A p \in 1..Len(collected) :
              Failed(collected[p]) => result[p] = Shown(outcome[collected[p]])
        /\ (\A p \in 1..Len(collected) : collected[p] = p) =>
              \A i \in Tasks : Failed(i) => result[i] = Shown(outcome[i])

C9_Witness ==
    /\ pc = "returned"
    /\ return_meta
    /\ Len(inputs) = 2
    /\ FailedAt(1, "infer")
    /\ Succeeded(2) /\ outcome[2].doc = GoodDoc(2)
    /\ collected = <<2, 1>>
    /\ result = <<GoodDoc(2), ErrorMarker(outcome[1].err)>>

(***************************************************************************)
(* C10.  As claimed: the gathered sequence lists the tasks in the order in *)
(* which they finished.                                                    *)
(***************************************************************************)
C10_GatheredInFinishOrder ==
    \A p, q \in 1..Len(collected) :
        p < q => PosIn(finishOrder, collected[p]) < PosIn(finishOrder, collected[q])

(***************************************************************************)
(* C10, amended.  The results are gathered in the order as_completed       *)
(* yields the futures, not in submission order: the futures that had       *)
(* finished before the collection began come first, in no particular       *)
(* order, and after them the others in the order in which they finish.     *)
(* With two items and two workers the gathered order can differ from the   *)
(* input order (the witness).                                              *)
(***************************************************************************)
Ungathered == SelectSeq(finishOrder, LAMBDA j : j \notin Range(collected))

C10_GatheredAsYielded ==
    [][collected' # collected =>
         /\ Len(collected') = Len(collected) + 1
         /\ SubSeq(collected', 1, Len(collected)) = collected
         /\ LET i == collected'[Len(collected')]
            IN  /\ tpc[i] = "done"
                /\ i \notin Range(collected)
                /\ IF snapshot # {} THEN i \in snapshot ELSE i = Head(Ungathered)]_vars

C10_Witness ==
    /\ Len(inputs) = 2
    /\ workers = 2
    /\ pc = "collect"
    /\ collected = <<2>>
    /\ finishOrder = <<2>>
    /\ tpc[1] = "sleep"


--------------------------------------------------------------------------------
Submitted == {i \in Tasks : tpc[i] # "new"}

\* C11: one task is submitted per input item, task i for item i and no other;
\* in every reachable state the number of tasks executing at the same time is
\* at most the requested worker count; a task that has not started waits in
\* submission order behind the ones that have, and once every task is
\* submitted a task is still waiting only while every worker is busy or
\* about to take it.
C11_BoundedWorkers ==
    /\ Cardinality(Running) <= workers
    /\ Submitted = 1..nsub
    /\ nsub <= Len(inputs)
    /\ pc \in {"collect", "returned"} => nsub = Len(inputs)
    /\ DOMAIN tpc = 1..Len(inputs)
    /\ \A i, j \in Tasks : (i < j /\ tpc[i] = "queued") => tpc[j] \in {"new", "queued"}
    /\ \A i \in Tasks :
          (tpc[i] = "queued" /\ Cardinality(Running) = workers) => ~ENABLED Start(i)
    /\ \A i \in Tasks :
          (tpc[i] = "queued" /\ Cardinality(Running) < workers)
              => \E j \in Tasks : ENABLED Start(j)

\* two items on one worker: the first executes while the second waits
C11_Witness ==
    /\ Len(inputs) = 2
    /\ workers = 1
    /\ pc = "collect"
    /\ tpc[1] = "infer"
    /\ tpc[2] = "queued"
    /\ ~ENABLED Start(2)


--------------------------------------------------------------------------------
TypeErrorAt(i) ==
    /\ outcome[i] = Raised(Exc("TypeError", "norm", 0))
    /\ trace[i] = <<Ev("slot", 0, TRUE), Ev("norm", 0, FALSE)>>

\* C12 as stated: an item of an unsupported type is never recorded as an
\* error marker; the batch call raises to the caller and does not return.
C12_UnsupportedRaisesToCaller ==
    \A i \in Tasks :
        inputs[i] = "other" => (pc # "returned" /\ i \notin Range(collected))

\* C12: an item of an unsupported type inside a collection is captured like
\* every other failure: its task fails at the slot request or, the slot
\* requested, with the TypeError of the normalization; it is gathered as an
\* error marker and the call returns.  The call raises to the caller only for
\* a single argument that is neither a str nor an Image and cannot be
\* iterated, before any task exists.
C12_UnsupportedCaptured ==
    /\ \A i \in Tasks :
          inputs[i] = "other" =>
              /\ tpc[i] \in {"new", "queued", "slot", "done"}
              /\ tpc[i] = "done" => (TypeErrorAt(i) \/ FailedAt(i, "slot"))
              /\ \A p \in 1..Len(collected) :
                    collected[p] = i => responses[p] = ErrorMarker(outcome[i].err)
    /\ pc = "raised" <=> image_paths_or_pils = NonIterableArg
    /\ pc = "raised" => (inputs = <<>> /\ nsub = 0 /\ responses = <<>> /\ ~ENABLED Next)

\* a call on an unsupported item and a readable one has returned both
C12_Witness ==
    /\ pc = "returned"
    /\ return_meta
    /\ inputs = <<"other", "str">>
    /\ TypeErrorAt(1)
    /\ result = <<GoodDoc(2), ErrorMarker(Exc("TypeError", "norm", 0))>>


--------------------------------------------------------------------------------
\* the extraction order of the parser's contract, as a function of the document
IsMapping(v) == v.k = "dict"
IsSequence(v) == v.k = "list"
Located(v, key) ==
    /\ key \in DOMAIN v.m
    /\ IsSequence(v.m[key])
    /\ v.m[key].xs # <<>>
    /\ IsMapping(Head(v.m[key].xs))
    /\ "embedding" \in DOMAIN Head(v.m[key].xs).m
EmbeddingAt(v, key) == Head(v.m[key].xs).m["embedding"]
ParserContract(v) ==
    CASE ~IsMapping(v) -> JNull
      [] IsMapping(v) /\ Located(v, "metadata") -> EmbeddingAt(v, "metadata")
      [] IsMapping(v) /\ ~Located(v, "metadata") ->
            IF "embedding" \in DOMAIN v.m /\ IsSequence(v.m["embedding"])
            THEN v.m["embedding"]
            ELSE IF Located(v, "data") THEN EmbeddingAt(v, "data")
            ELSE IF Located(v, "outputs") THEN EmbeddingAt(v, "outputs")
            ELSE IF Located(v, "results") THEN EmbeddingAt(v, "results")
            ELSE JNull
NoneLocated(v) ==
    /\ \A key \in {"metadata", "data", "outputs", "results"} : ~Located(v, key)
    /\ ~("embedding" \in DOMAIN v.m /\ IsSequence(v.m["embedding"]))

\* C13: for every document the parser returns a value (it never raises) and
\* that value is the one the fixed first-match order names: metadata[0]'s
\* embedding, else the top-level embedding when it is a sequence, else the
\* embedding under the first of data, outputs, results that holds one, else
\* "no value"; non-mappings, {} and {"error": ...} give "no value".
C13_ParserPriority ==
    (pc = "returned" /\ ~return_meta) =>
        /\ Len(result) = Len(responses)
        /\ \A p \in 1..Len(responses) :
              LET v == responses[p]
              IN  /\ result[p] = ParserContract(v)
                  /\ ~IsMapping(v) => result[p] = JNull
                  /\ (IsMapping(v) /\ NoneLocated(v)) => result[p] = JNull
                  /\ (IsMapping(v) /\ DOMAIN v.m \subseteq {"error"}) => result[p] = JNull

\* a document with an embedding at all three kinds of place: metadata wins
C13_Witness ==
    /\ pc = "returned"
    /\ ~return_meta
    /\ Len(responses) = 1
    /\ IsMapping(responses[1])
    /\ DOMAIN responses[1].m = {"metadata", "embedding", "data", "outputs", "results", "error"}
    /\ \A key \in {"metadata", "data", "outputs", "results"} : Located(responses[1], key)
    /\ responses[1].m["embedding"] = EmbeddingOf(2)
    /\ result = <<EmbeddingOf(1)>>


--------------------------------------------------------------------------------
Placeholders == {p \in 1..Len(result) : result[p] = JNull}

\* C14: raw mode returns the collected documents as they are, without a
\* warning; embedding mode returns, for the same documents, a sequence of the
\* same length whose entry p is the parser's value for document p, "no
\* value" staying at position p as a placeholder, and the warning carries
\* the number of placeholders, being emitted exactly when there is one.
C14_EmbeddingsImageOfRaw ==
    pc = "returned" =>
        IF return_meta
        THEN result = responses /\ warned = 0
        ELSE /\ DOMAIN result = DOMAIN responses
             /\ \A p \in DOMAIN responses : result[p] = ExtractEmbedding(responses[p])
             /\ warned = Cardinality(Placeholders)
             /\ warned > 0 <=> \E p \in DOMAIN responses : ExtractEmbedding(responses[p]) = JNull

\* an error marker and a parseable document: a placeholder in front, one warning
C14_Witness ==
    /\ pc = "returned"
    /\ ~return_meta
    /\ responses = <<ErrorMarker(Exc("RequestException", "slot", 0)), GoodDoc(2)>>
    /\ result = <<JNull, EmbeddingOf(2)>>
    /\ warned = 1


--------------------------------------------------------------------------------
Single(kd) == [shape |-> "single", item |-> kd]
ListOf(xs) == [shape |-> "list", items |-> xs]

\* C15: a single path or image x is normalized to the one-element collection
\* of x, the same inputs the call on [x] works on; the call on x submits one
\* task, for x, and a call on one item, passed alone or in a collection,
\* returns the one-element output showing that item's outcome.
C15_SingleAsOneElement ==
    /\ \A kd \in {"str", "pil"} :
          /\ NormalizeInput(Single(kd)) = <<kd>>
          /\ NormalizeInput(Single(kd)) = NormalizeInput(ListOf(<<kd>>))
    /\ pc \notin {"idle", "raised"} => inputs = NormalizeInput(image_paths_or_pils)
    /\ (pc \notin {"idle", "raised"} /\ image_paths_or_pils.shape = "single") =>
          /\ inputs = <<image_paths_or_pils.item>>
          /\ DOMAIN tpc = {1}
          /\ nsub <= 1
    /\ (pc = "returned" /\ Len(inputs) = 1) => result = <<Shown(outcome[1])>>

\* an image passed alone has been embedded
C15_Witness ==
    /\ pc = "returned"
    /\ ~return_meta
    /\ image_paths_or_pils = Single("pil")
    /\ nsub = 1
    /\ result = <<EmbeddingOf(1)>>


--------------------------------------------------------------------------------
UploadOrder == <<"slot", "norm", "put", "parse">>

\* C16: a task's upload steps are its first steps and come in the order slot
\* request, normalization, byte transfer, identifier parsing, each at most
\* once; a failed upload step is the task's last step and the task has
\* failed at it; so an unreadable or unsupported image fails with the slot
\* requested and no byte transfer made, and a malformed identifier shows
\* only after the byte transfer succeeded.
C16_UploadStepOrder ==
    \A i \in Tasks :
        LET t == trace[i]
            n == Len(t)
            u == IF n < 4 THEN n ELSE 4
        IN  /\ \A p \in 1..u :
                  /\ t[p].op = UploadOrder[p]
                  /\ ~t[p].ok => (p = n /\ FailedAt(i, UploadOrder[p]))
            /\ \A p \in 5..n : t[p].op \notin {"slot", "norm", "put", "parse"}
            /\ (n >= 2 /\ ~t[2].ok) => (t[1] = Ev("slot", 0, TRUE) /\ sent[i] = <<>>)
            /\ (n >= 4 /\ ~t[4].ok) => t[3] = Ev("put", 0, TRUE)
            /\ sent[i] # <<>> <=> n >= 3
            /\ tpc[i] = "put" => t = <<Ev("slot", 0, TRUE), Ev("norm", 0, TRUE)>>
            /\ (tpc[i] = "done" /\ Failed(i) /\ outcome[i].err.type \in {"OSError", "TypeError"})
                    => t = <<Ev("slot", 0, TRUE), Ev("norm", 0, FALSE)>>
            /\ (tpc[i] = "done" /\ Failed(i) /\ outcome[i].err.type = "ValueError")
                    => t = <<Ev("slot", 0, TRUE), Ev("norm", 0, TRUE), Ev("put", 0, TRUE),
                             Ev("parse", 0, FALSE)>>

\* an unreadable image next to an item whose identifier was malformed
C16_Witness ==
    /\ Len(inputs) = 2
    /\ tpc = <<"done", "done">>
    /\ outcome[1] = Raised(Exc("OSError", "norm", 0))
    /\ trace[1] = <<Ev("slot", 0, TRUE), Ev("norm", 0, FALSE)>>
    /\ sent[1] = <<>>
    /\ outcome[2] = Raised(Exc("ValueError", "parse", 0))
    /\ trace[2][3] = Ev("put", 0, TRUE)
    /\ Len(sent[2]) = 1


--------------------------------------------------------------------------------
InfersSent(i) == SelectSeq(sent[i], LAMBDA r : r.op = "infer")

\* C17: every inference request of a task carries in both asset headers the
\* identifier that task's own slot request returned, which is no identifier
\* issued to another task, one request per attempt; the task's byte transfer
\* goes to its own identifier, and no identifier receives two transfers.
C17_NoCrossTalk ==
    \A i \in Tasks :
        LET s == sent[i]
        IN  /\ s # <<>> => asset_id[i] = IssuedAsset(i)
            /\ \A j \in Tasks : (j # i /\ asset_id[i] # NoAsset) => asset_id[j] # asset_id[i]
            /\ \A p \in 1..Len(s) :
                  /\ p = 1 => (s[p].op = "put" /\ s[p].uploadUrl = asset_id[i])
                  /\ p > 1 =>
                        /\ s[p].op = "infer"
                        /\ s[p].input_refs = asset_id[i]
                        /\ s[p].function_ids = asset_id[i]
            /\ \A j \in Tasks :
                  (j # i /\ s # <<>> /\ sent[j] # <<>>) => sent[j][1].uploadUrl # s[1].uploadUrl
            /\ tpc[i] \in {"infer", "sleep"} => Len(s) = attempt[i] + (IF tpc[i] = "sleep" THEN 2 ELSE 1)

\* two tasks retry their inference at the same time, the second slot issued last
C17_Witness ==
    /\ Len(inputs) = 2
    /\ tpc = <<"infer", "infer">>
    /\ Len(InfersSent(1)) = 1
    /\ Len(InfersSent(2)) = 1
    /\ InfersSent(1)[1].input_refs # InfersSent(2)[1].input_refs


--------------------------------------------------------------------------------
\* the entry an outcome contributes: the document, or the marker of the error
EntryOf(o) == IF o.st = "err" THEN JDict([error |-> JStr(o.err.msg)]) ELSE o.doc
TimesCollected(e) == Cardinality({p \in 1..Len(responses) : responses[p] = e})
TimesOutcome(e, S) == Cardinality({i \in S : EntryOf(outcome[i]) = e})
OncePerGathered ==
    /\ Len(responses) = Len(collected)
    /\ \A p, q \in 1..Len(collected) : collected[p] = collected[q] => p = q
    /\ \A p \in 1..Len(collected) :
          /\ tpc[collected[p]] = "done"
          /\ responses[p] = EntryOf(outcome[collected[p]])
    /\ \A e \in Range(responses) : TimesCollected(e) = TimesOutcome(e, Range(collected))
    /\ pc = "returned" =>
          /\ Range(collected) = Tasks
          /\ \A i \in Tasks :
                TimesCollected(EntryOf(outcome[i])) = TimesOutcome(EntryOf(outcome[i]), Tasks)

\* C18: after every step the collected sequence holds exactly one entry per
\* task gathered so far, the entry of that task's outcome, each entry as
\* many times as tasks have that outcome, and at the return every task has
\* been gathered; the sequence changes only in a step of the collecting
\* thread, which appends one entry and changes no task.
C18_ExactlyOnce ==
    [][/\ OncePerGathered'
       /\ responses' # responses =>
             /\ pc = "collect" /\ pc' = "collect"
             /\ \E i \in Tasks : /\ collected' = Append(collected, i)
                                 /\ responses' = Append(responses, EntryOf(outcome[i]))
             /\ UNCHANGED <<tpc, outcome, trace, sent, attempt, last_err, asset_id, finishOrder>>
       /\ (\E i \in Tasks : tpc'[i] # tpc[i]) => UNCHANGED <<responses, collected>>]_vars

\* two items failed alike: the same marker collected twice
C18_Witness ==
    /\ pc = "returned"
    /\ Len(inputs) = 2
    /\ outcome[1] = outcome[2]
    /\ Failed(1)
    /\ Len(responses) = 2
    /\ responses[1] = responses[2]


--------------------------------------------------------------------------------
\* C19: under fair scheduling a batch call that has been entered returns,
\* every one of its tasks having reached its terminal state.
C19_Terminates ==
    (pc = "submit") ~> (pc = "returned" /\ \A i \in Tasks : tpc[i] = "done")

\* two items on one worker, the first having used up its retries, have returned
C19_Witness ==
    /\ pc = "returned"
    /\ workers = 1
    /\ Len(inputs) = 2
    /\ Len(InferEvents(1)) = client.max_retries + 1
    /\ FailedAt(1, "infer")
    /\ tpc[2] = "done"


--------------------------------------------------------------------------------
\* a call starts from nothing and its result shows its own tasks' outcomes
StartsFresh ==
    /\ nsub = 0 /\ responses = <<>> /\ collected = <<>> /\ result = <<>> /\ warned = 0
    /\ \A i \in Tasks : tpc[i] = "new" /\ outcome[i] = NoOutcome /\ sent[i] = <<>>
OwnOutcomesOnly ==
    /\ Len(responses) <= Len(inputs)
    /\ pc = "returned" =>
          /\ Len(result) = Len(inputs)
          /\ Range(collected) = Tasks
          /\ \A p \in 1..Len(result) : result[p] = Shown(outcome[collected[p]])

\* C20: no step of a batch call, of the calling thread or of a worker,
\* changes the client (credential, base URL, timeout, max_retries,
\* retry_backoff); every call, the first or a later one on the same client,
\* starts with nothing collected and returns one entry per item of its own,
\* showing that item's outcome in this call.
C20_ClientUnchanged ==
    [][/\ client' = client
       /\ calls' # calls => StartsFresh'
       /\ OwnOutcomesOnly']_vars

\* a second call on the client has returned, its item failed without a retry
C20_Witness ==
    /\ calls = 2
    /\ pc = "returned"
    /\ client.max_retries = 0
    /\ Len(inputs) = 1
    /\ FailedAt(1, "infer")
    /\ result = <<JNull>>
    /\ warned = 1

====
